---- MODULE Spec2Model ----
(***************************************************************************)
(* A model of syft/frameworks/torch/mpc/securenn.py (SecureNN protocols    *)
(* over additive secret sharing between two holders, alice and bob, and a  *)
(* crypto provider).                                                       *)
(*                                                                         *)
(* A sharing (AdditiveSharingTensor) is a record                           *)
(*     [a |-> alice's share, b |-> bob's share, field |-> modulus,         *)
(*      dtype |-> "long" | "custom"]                                       *)
(* whose shares are integers (one element) or sequences of integers (a     *)
(* bit axis or a flattened tensor).  A MultiPointerTensor is a value both  *)
(* holders hold in the clear; the role index j is 0 at alice and 1 at bob. *)
(*                                                                         *)
(* The standard field is L = 2^NBits and torch integers have NBits bits,   *)
(* as in the program, where the standard dtypes have field 2^64 (int64)    *)
(* and 2^32 (int32); the widths are scaled down so that the state space is *)
(* finite and small.                                                       *)
(***************************************************************************)
EXTENDS Integers, Sequences, FiniteSets, TLC

VARIABLES pc, op, inp, rnd, loc, out, n_mul, n_zero

vars == <<pc, op, inp, rnd, loc, out, n_mul, n_zero>>

(***************************************************************************)
(* Bounds of the model.                                                    *)
(***************************************************************************)
\* bit width of the standard field of the top-level operators (L = 2^NBits)
NBits == 6
\* bit width of the field L handed to private_compare when it is run alone
CmpBits == 3

(***************************************************************************)
(* Program constants.                                                      *)
(***************************************************************************)
\* securenn.py:15, the small field of the bit sharings
p == 67

None == [none |-> TRUE]

\* securenn.py:19-21, the storage width of a field: 64 above 2^32, else 32.
\* On the scale of this module, where the field 2^NBits stands for 2^64, the
\* widths are NBits and NBits \div 2 and the threshold is 2^(NBits \div 2)
Q_BITS(field) == IF field > 2^(NBits \div 2) THEN NBits ELSE NBits \div 2

(***************************************************************************)
(* Field encoding (securenn.py:29-46).                                     *)
(***************************************************************************)
\* round(math.log(field, 2)): the n with 2^(n - 1/2) <= field < 2^(n + 1/2),
\* that is 2^(2n-1) <= field^2 < 2^(2n+1)
get_n_bits(field) ==
    CHOOSE n \in 1..12 : 2^(2*n - 1) <= field * field /\ field * field < 2^(2*n + 1)

get_max_val_field(field) == (field - 1) \div 2

get_min_val_field(field) == -(field \div 2)

get_r_mask(field) == (field \div 2) - 1

(***************************************************************************)
(* torch integer arithmetic.                                               *)
(***************************************************************************)
\* the representative of v modulo field in the balanced range
\* [get_min_val_field(field), get_max_val_field(field)]
modulo(v, field) ==
    LET m == v % field
    IN  IF m > get_max_val_field(field) THEN m - field ELSE m

\* `/` on integer tensors rounds toward zero
TruncDiv(a, b) == IF a >= 0 THEN a \div b ELSE -((-a) \div b)

\* torch.fmod: the remainder has the sign of the dividend
fmod(a, b) == a - b * TruncDiv(a, b)

\* a torch integer of the storage width of field L (int64 for L = 2^64)
TorchInt(v, L) == modulo(v, L)

\* a tensor along one axis, as an explicit sequence
Vec(f) == SubSeq(f, 1, Len(f))

\* securenn.py:54-66, least-significant bit first
decompose(tensor, field) ==
    Vec([i \in 1..get_n_bits(field) |-> fmod(TruncDiv(tensor, 2^(i - 1)), 2)])

\* tensor.flip(-1)
Flip(t) == LET n == Len(t) IN Vec([i \in 1..n |-> t[n + 1 - i]])

RECURSIVE SumTo(_, _)
SumTo(t, k) == IF k = 0 THEN 0 ELSE t[k] + SumTo(t, k - 1)

\* tensor.cumsum(-1)
Cumsum(t) == LET n == Len(t) IN Vec([i \in 1..n |-> SumTo(t, i)])

\* the value a bit sequence stands for
BitsValue(bits) == SumTo([i \in 1..Len(bits) |-> bits[i] * 2^(i - 1)], Len(bits))

Max(a, b) == IF a >= b THEN a ELSE b

(***************************************************************************)
(* The additive sharing engine (AdditiveSharingTensor, MultiPointerTensor).*)
(* Every operation reduces each holder's share into the balanced range of  *)
(* the sharing's field.                                                    *)
(***************************************************************************)
\* tensor.share(...): alice's share is the random mask, bob's the rest
share(v, mask, field, dtype) ==
    [a |-> modulo(mask, field), b |-> modulo(v - mask, field),
     field |-> field, dtype |-> dtype]

\* the same along an axis: v and mask are sequences
share_seq(v, mask, field, dtype) ==
    [a |-> Vec([i \in 1..Len(v) |-> modulo(mask[i], field)]),
     b |-> Vec([i \in 1..Len(v) |-> modulo(v[i] - mask[i], field)]),
     field |-> field, dtype |-> dtype]

\* sh.get() / sh.reconstruct(): the plaintext of a one-element sharing
reconstruct(sh) == modulo(sh.a + sh.b, sh.field)

\* the plaintext of a sharing along an axis
reconstruct_seq(sh) ==
    Vec([i \in 1..Len(sh.a) |-> modulo(sh.a[i] + sh.b[i], sh.field)])

\* x_sh + y_sh, share by share, in the field of x_sh
add(x_sh, y_sh) ==
    [x_sh EXCEPT !.a = modulo(x_sh.a + y_sh.a, x_sh.field),
                 !.b = modulo(x_sh.b + y_sh.b, x_sh.field)]

\* x_sh - y_sh
sub(x_sh, y_sh) ==
    [x_sh EXCEPT !.a = modulo(x_sh.a - y_sh.a, x_sh.field),
                 !.b = modulo(x_sh.b - y_sh.b, x_sh.field)]

\* x_sh * k for a public integer k
mul_public(x_sh, k) ==
    [x_sh EXCEPT !.a = modulo(x_sh.a * k, x_sh.field),
                 !.b = modulo(x_sh.b * k, x_sh.field)]

\* x_sh + v for a MultiPointerTensor v = [a |-> alice's value, b |-> bob's value]
add_pointer(x_sh, v) ==
    [x_sh EXCEPT !.a = modulo(x_sh.a + v.a, x_sh.field),
                 !.b = modulo(x_sh.b + v.b, x_sh.field)]

\* x_sh[i]
element(x_sh, i) == [x_sh EXCEPT !.a = x_sh.a[i + 1], !.b = x_sh.b[i + 1]]

\* x_sh * y_sh: the secure multiplication, one round trip through the crypto
\* provider; the product comes back as a fresh sharing (mask)
mul(x_sh, y_sh, mask) ==
    share(reconstruct(x_sh) * reconstruct(y_sh), mask, x_sh.field, x_sh.dtype)

(***************************************************************************)
(* Common randomness (securenn.py:84-131).                                 *)
(***************************************************************************)
\* _random_common_bit: random_(2)
RandomCommonBits == {0, 1}

\* _random_common_value: random_(1, get_max_val_field(max_value)) draws from
\* [1, get_max_val_field(max_value) - 1]
RandomCommonValues(max_value) == 1..(get_max_val_field(max_value) - 1)

\* _shares_of_zero(1, field, dtype, ...)
shares_of_zero(mask, field, dtype) == share(0, mask, field, dtype)

(***************************************************************************)
(* private_compare (securenn.py:169-263).                                  *)
(***************************************************************************)
\* w.flip(-1).cumsum(-1).flip(-1) - w (lines 212-213, 219-220)
suffix_sums(w, field) ==
    LET cs == Flip(Cumsum(Flip(w)))
    IN  Vec([i \in 1..Len(w) |-> modulo(cs[i] - w[i], field)])

\* steps 5)-7) at one holder: c_beta0 from the bits of r
holder_c_beta0(xh, j, r_bit, field) ==
    LET I == 1..Len(xh)
        \* 5)
        w == Vec([i \in I |-> modulo(xh[i] + (j * r_bit[i]) - (2 * r_bit[i] * xh[i]), field)])
        \* 6)
        wc == suffix_sums(w, field)
    IN  Vec([i \in I |-> modulo(-xh[i] + (j * r_bit[i]) + j + wc[i], field)])

\* steps 8)-10) at one holder: c_beta1 from the bits of t = r + 1
holder_c_beta1(xh, j, t_bit, field) ==
    LET I == 1..Len(xh)
        \* 8)
        w == Vec([i \in I |-> modulo(xh[i] + (j * t_bit[i]) - (2 * t_bit[i] * xh[i]), field)])
        \* 9)
        wc == suffix_sums(w, field)
    IN  Vec([i \in I |-> modulo(xh[i] + (-j * t_bit[i]) + j + wc[i], field)])

\* step 11) at one holder: c_else from the common tensor u
holder_c_else(j, u) ==
    LET I == 1..Len(u)
        c_igt1 == Vec([i \in I |-> (1 - j) * (u[i] + 1) - (j * u[i])])
        c_ie1 == Vec([i \in I |-> (1 - 2 * j) * u[i]])
        l1_mask == Vec([i \in I |-> IF i = 1 THEN 1 ELSE 0])
    IN  Vec([i \in I |-> (l1_mask[i] * c_ie1[i]) + ((1 - l1_mask[i]) * c_igt1[i])])

\* holder_c with the two bit vectors exchanged: c_beta0 from the bits of
\* r + 1 and c_beta1 from the bits of r
holder_c_exchanged(xh, j, r, beta, L, u, field) ==
    LET I == 1..Len(xh)
        t == TorchInt(r + 1, L)
        c_beta0 == holder_c_beta0(xh, j, decompose(t, L), field)
        c_beta1 == holder_c_beta1(xh, j, decompose(r, L), field)
        c_else == holder_c_else(j, u)
        r_mask == IF r = get_r_mask(L) THEN 1 ELSE 0
    IN  Vec([i \in I |-> modulo((1 - beta) * c_beta0[i]
                                + (beta * (1 - r_mask)) * c_beta1[i]
                                + (beta * r_mask) * c_else[i], field)])

\* lines 205-240 at one holder: xh its shares of the bits of x, j its role index
holder_c(xh, j, r, beta, L, u, field) ==
    LET I == 1..Len(xh)
        \* 1)
        t == TorchInt(r + 1, L)
        c_beta0 == holder_c_beta0(xh, j, decompose(r, L), field)
        c_beta1 == holder_c_beta1(xh, j, decompose(t, L), field)
        c_else == holder_c_else(j, u)
        r_mask == IF r = get_r_mask(L) THEN 1 ELSE 0
    IN  Vec([i \in I |-> modulo((1 - beta) * c_beta0[i]
                                + (beta * (1 - r_mask)) * c_beta1[i]
                                + (beta * r_mask) * c_else[i], field)])

\* holder_mask without the blinding: the vector c itself is handed on
holder_mask_unblinded(s, c, field) == Vec([i \in 1..Len(c) |-> modulo(c[i], field)])

\* 14) mask = s * c
holder_mask(s, c, field) == Vec([i \in 1..Len(c) |-> modulo(s[i] * c[i], field)])

\* the computation of one holder
PrivateCompareHolder(xh, j, r, beta, L, s, u, field) ==
    holder_mask(s, holder_c(xh, j, r, beta, L, u, field), field)

\* lines 255-259: the crypto provider opens the permuted mask and counts zeros
private_compare_remote(permuted_mask) ==
    LET \* 15)
        d == reconstruct_seq(permuted_mask)
    IN  [res |-> Cardinality({i \in 1..Len(d) : d[i] = 0}), d |-> d,
         permuted_mask |-> permuted_mask]

\* mask[..., perm]
permute(mask, perm) == Vec([i \in 1..Len(mask) |-> mask[perm[i]]])

\* lines 242-263 from the holders' vectors c
private_compare_hide(c_a, c_b, s, perm, field, dtype) ==
    private_compare_remote(
        [a |-> permute(holder_mask(s, c_a, field), perm),
         b |-> permute(holder_mask(s, c_b, field), perm),
         field |-> field, dtype |-> dtype])

\* s, u, perm: the common randomness drawn at lines 197-199
private_compare(x_bit_sh, r, beta, L, s, u, perm) ==
    private_compare_hide(holder_c(x_bit_sh.a, 0, r, beta, L, u, x_bit_sh.field),
                         holder_c(x_bit_sh.b, 1, r, beta, L, u, x_bit_sh.field),
                         s, perm, x_bit_sh.field, x_bit_sh.dtype)

\* torch.randperm(n): the permutations of 1..n
Perms(n) == {f \in [1..n -> 1..n] : \A i, k \in 1..n : f[i] = f[k] => i = k}

(***************************************************************************)
(* select_share (securenn.py:134-166), for one-element sharings.  R holds  *)
(* the mask of the zero-share u_sh and the mask of the product c_sh.       *)
(***************************************************************************)
\* select_share with the operands of step 1 exchanged: w_sh = x_sh - y_sh
select_share_exchanged(alpha_sh, x_sh, y_sh, R) ==
    LET L == alpha_sh.field
        u_sh == shares_of_zero(R.m_u, L, alpha_sh.dtype)
        w_sh == sub(x_sh, y_sh)
        c_sh == mul(alpha_sh, w_sh, R.m_c)
        z_sh == add(add(x_sh, c_sh), u_sh)
    IN  z_sh

select_share(alpha_sh, x_sh, y_sh, R) ==
    LET L == alpha_sh.field
        u_sh == shares_of_zero(R.m_u, L, alpha_sh.dtype)
        \* 1)
        w_sh == sub(y_sh, x_sh)
        \* 2)
        c_sh == mul(alpha_sh, w_sh, R.m_c)
        \* 3)
        z_sh == add(add(x_sh, c_sh), u_sh)
    IN  z_sh

\* the assertion of lines 147-149
select_share_dtypes_ok(alpha_sh, x_sh, y_sh) ==
    /\ alpha_sh.dtype = x_sh.dtype
    /\ x_sh.dtype = y_sh.dtype
    /\ y_sh.dtype # "custom"

\* c_sh = alpha_sh * w_sh (line 161); u_sh (line 155)
select_share_muls == 1
select_share_zero_shares == 1

(***************************************************************************)
(* msb (securenn.py:266-338), for a one-element a_sh.  R is the randomness *)
(* drawn during the call: the common bit beta, the blind x, the masks of   *)
(* the fresh sharings and the randomness of private_compare.               *)
(***************************************************************************)
\* get_dtype(L): the standard dtype of the model's field
StdDtype == "long"

\* sh + (j * v), the public v added by bob alone (j is 0 at alice, 1 at bob)
add_j(sh, v) == add_pointer(sh, [a |-> 0 * v, b |-> 1 * v])

\* steps 1)-3): the blinded value r = 2a + x, opened in the field L - 1
msb_reveal(a_sh, R) ==
    LET L == a_sh.field + 1
        \* 1)
        x_sh == share(R.x, R.m_x, L - 1, "custom")
        \* 2)
        y_sh == mul_public(a_sh, 2)
        r_sh == add(y_sh, x_sh)
        \* 3)
    IN  reconstruct(r_sh)

\* the same for a flattened a_sh of several elements: torch.tensor(a_sh.shape)
\* holds the one number of the shape of the flattened tensor, so x is a single
\* element (line 293) that the addition of line 306 broadcasts to every element
msb_reveal_seq(a_sh, R) ==
    Vec([i \in 1..Len(a_sh.a) |-> msb_reveal(element(a_sh, i - 1), R)])

\* step 4): the bits of the blind are shared in the field p and compared with r
msb_compare(a_sh, R, r) ==
    LET L == a_sh.field + 1
        x_bit_sh == share_seq(decompose(R.x, L), R.m_xbit, p, "custom")
    IN  private_compare(x_bit_sh, r, R.beta, L, R.s, R.u, R.perm)

\* gamma and delta of steps 7) and 8): b + j * v - 2 * v * b
xor_public(b_sh, v) == sub(add_j(b_sh, v), mul_public(b_sh, 2 * v))

\* steps 9)-10)
msb_combine(gamma, delta, u, m_theta) ==
    add(sub(add(gamma, delta), mul_public(mul(gamma, delta, m_theta), 2)), u)

\* steps 5)-10) from the opened r and the result cmp of private_compare
msb_finish(a_sh, R, r, cmp) ==
    LET L == a_sh.field + 1
        \* Common Randomness
        u == shares_of_zero(R.m_u, L, StdDtype)
        x_bit_sh_0 == share(decompose(R.x, L)[1], R.m_x0, L, StdDtype)
        r_0 == decompose(r, L)[1]
        \* 5)
        beta_prime_sh == share(cmp.res, R.m_bp, L, StdDtype)
    IN  [a |-> msb_combine(xor_public(beta_prime_sh, R.beta), xor_public(x_bit_sh_0, r_0),
                           u, R.m_theta),
         r |-> r, beta_prime |-> cmp.res, d |-> cmp.d]

msb_opened(a_sh, R, r) == msb_finish(a_sh, R, r, msb_compare(a_sh, R, r))

msb(a_sh, R) == msb_opened(a_sh, R, msb_reveal(a_sh, R))

(***************************************************************************)
(* share_convert (securenn.py:341-439).                                    *)
(***************************************************************************)
\* u_sh + a_sh: the shares of a_sh, taken modulo L, are added to a zero-share
\* of field L - 1 and reduced modulo L - 1
share_convert(a_sh, m_u) ==
    LET L == a_sh.field
        u_sh == shares_of_zero(m_u, L - 1, "custom")
        y_sh == add(u_sh, a_sh)
    IN  y_sh

(***************************************************************************)
(* relu_deriv and relu (securenn.py:442-504).                              *)
(***************************************************************************)
relu_deriv(a_sh, R) ==
    LET L == a_sh.field
        \* Common randomness
        u == shares_of_zero(R.m_u, L, StdDtype)
        \* 1)
        y_sh == mul_public(a_sh, 2)
        \* 2)
        y_conv == share_convert(y_sh, R.m_conv)
        \* 3)
        alpha_sh == msb(y_conv, R.msb).a
        \* 4) j - alpha_sh + u
        gamma_sh == add(add_j(mul_public(alpha_sh, -1), 1), u)
    IN  gamma_sh

relu(a_sh, R) ==
    LET L == a_sh.field
        u == shares_of_zero(R.m_u, L, StdDtype)
    IN  add(mul(a_sh, relu_deriv(a_sh, R.deriv), R.m_mul), u)

(***************************************************************************)
(* The remote round trips a call issues: secure multiplications (x_sh *    *)
(* y_sh) and zero-sharings (_shares_of_zero).                              *)
(***************************************************************************)
\* msb: theta = gamma * delta (line 330); u (line 290)
msb_muls == 1
msb_zero_shares == 1
\* share_convert: u_sh (line 385)
share_convert_zero_shares == 1
\* relu_deriv: u (line 463), share_convert and msb
relu_deriv_muls == msb_muls
relu_deriv_zero_shares == 1 + share_convert_zero_shares + msb_zero_shares
\* relu: a_sh * relu_deriv(a_sh) and u (lines 502-504)
relu_muls == 1 + relu_deriv_muls
relu_zero_shares == 1 + relu_deriv_zero_shares

(***************************************************************************)
(* division (securenn.py:509-564), for one-element x_sh and y_sh.          *)
(***************************************************************************)
\* one pass of the loop body (lines 542-556) for trial bit i (0-based); R is
\* the randomness of relu_deriv, m_v the mask of the product v_sh
division_record(y_sh, u_sh, ks, i, m_v, z_sh, beta_sh) ==
    [\* 5) v_sh = beta_sh * (2^i * y_sh); 7) u_sh + v_sh
     u_sh |-> add(u_sh, mul(beta_sh, mul_public(y_sh, 2^i), m_v)),
     \* 6) k_sh = beta_sh * 2^i
     ks |-> Append(ks, mul_public(beta_sh, 2^i)),
     z |-> reconstruct(z_sh), beta |-> reconstruct(beta_sh)]

\* 4) beta_sh = relu_deriv(z_sh)
division_test(y_sh, u_sh, ks, i, R, m_v, z_sh) ==
    division_record(y_sh, u_sh, ks, i, m_v, z_sh, relu_deriv(z_sh, R))

division_step(x_sh, y_sh, u_sh, w_sh, ks, i, R, m_v) ==
    division_test(y_sh, u_sh, ks, i, R, m_v,
                  \* 3)
                  add(sub(sub(x_sh, u_sh), mul_public(y_sh, 2^i)), w_sh[i + 1]))

\* sum(ks)
RECURSIVE sum_shares(_, _, _)
sum_shares(ks, k, zero) ==
    IF k = 0 THEN zero ELSE add(sum_shares(ks, k - 1, zero), ks[k])

\* 9) q = sum(ks) + s_sh
division_result(ks, s_sh) ==
    add(sum_shares(ks, Len(ks), [s_sh EXCEPT !.a = 0, !.b = 0]), s_sh)

(***************************************************************************)
(* maxpool (securenn.py:567-619).  x_sh is the flattened input, a sharing  *)
(* along one axis; positions are 0-based as in the program.                *)
(***************************************************************************)
\* lines 591-599: the state before the loop; R holds the masks of u_sh, v_sh
\* and of the sharing of index 0
maxpool_enter(x_sh, R) ==
    LET L == x_sh.field
    IN  [u_sh |-> shares_of_zero(R.m_u, L, StdDtype),
         v_sh |-> shares_of_zero(R.m_v, L, StdDtype),
         \* 1)
         max_sh |-> element(x_sh, 0),
         ind_sh |-> share(0, R.m_ind, L, StdDtype)]

\* lines 602-617: one pass of the loop body for element i; R holds the
\* randomness of relu_deriv, of the two select_share and the mask of k
maxpool_select(x_sh, max_sh, ind_sh, i, R, beta_sh) ==
    [\* 5)
     max_sh |-> select_share(beta_sh, max_sh, element(x_sh, i), R.sel_max),
     \* 6) k, 7)
     ind_sh |-> select_share(beta_sh, ind_sh, share(i, R.m_k, x_sh.field, StdDtype), R.sel_ind),
     beta |-> reconstruct(beta_sh)]

maxpool_step(x_sh, max_sh, ind_sh, i, R) ==
    maxpool_select(x_sh, max_sh, ind_sh, i, R,
                   \* 3) w_sh, 4) beta_sh
                   relu_deriv(sub(element(x_sh, i), max_sh), R.deriv))

\* line 619
maxpool_result(st) == [max |-> add(st.max_sh, st.u_sh), ind |-> add(st.ind_sh, st.v_sh)]

\* the loop-carried state after a step returned nx
maxpool_next(st, nx) == [st EXCEPT !.max_sh = nx.max_sh, !.ind_sh = nx.ind_sh]

\* the whole call: RE the randomness of the entry, RS[i] that of step i
RECURSIVE maxpool_loop(_, _, _, _)
maxpool_loop(x_sh, st, i, RS) ==
    IF i >= Len(x_sh.a) THEN st
    ELSE maxpool_loop(x_sh, maxpool_next(st, maxpool_step(x_sh, st.max_sh, st.ind_sh, i, RS[i])),
                      i + 1, RS)

maxpool(x_sh, RE, RS) == maxpool_result(maxpool_loop(x_sh, maxpool_enter(x_sh, RE), 1, RS))

(***************************************************************************)
(* maxpool_deriv (securenn.py:622-672).                                    *)
(***************************************************************************)
\* x_sh.view(-1) of a two-dimensional sharing: the rows one after the other
view_flat(x_sh) ==
    LET n1 == Len(x_sh.a)
        n2 == Len(x_sh.a[1])
        at(m, i) == m[((i - 1) \div n2) + 1][((i - 1) % n2) + 1]
    IN  [x_sh EXCEPT !.a = Vec([i \in 1..(n1 * n2) |-> at(x_sh.a, i)]),
                     !.b = Vec([i \in 1..(n1 * n2) |-> at(x_sh.b, i)])]

\* sh.view(n1, n2) of a flat sharing
view_2d(sh, n1, n2) ==
    LET rows(v) == Vec([r \in 1..n1 |-> Vec([c \in 1..n2 |-> v[(r - 1) * n2 + c]])])
    IN  [sh EXCEPT !.a = rows(sh.a), !.b = rows(sh.b)]

\* torch.roll(E_sh, shift) along the only axis: entry i moves to i + shift
roll(E_sh, shift) ==
    LET n == Len(E_sh.a)
        rolled(v) == Vec([i \in 1..n |-> v[((i - 1 - shift) % n) + 1]])
    IN  [E_sh EXCEPT !.a = rolled(E_sh.a), !.b = rolled(E_sh.b)]

\* x_sh + y_sh along an axis
add_seq(x_sh, y_sh) ==
    [x_sh EXCEPT !.a = Vec([i \in 1..Len(x_sh.a) |-> modulo(x_sh.a[i] + y_sh.a[i], x_sh.field)]),
                 !.b = Vec([i \in 1..Len(x_sh.b) |-> modulo(x_sh.b[i] + y_sh.b[i], x_sh.field)])]

\* lines 655-665: blind the index with r on alice's side, reveal it and share
\* the one-hot vector at k; m_E the masks of E_sh
maxpool_deriv_reveal(ind_max_sh, r, n, m_E) ==
    LET L == ind_max_sh.field
        \* 2)
        j == [a |-> 1, b |-> 0]
        k_sh == add_pointer(ind_max_sh, [a |-> j.a * r, b |-> j.b * r])
        \* 3)
        t == reconstruct(k_sh)
        k == t % n
        E_k == Vec([i \in 1..n |-> IF i - 1 = k THEN 1 ELSE 0])
    IN  [t |-> t, k |-> k, E_sh |-> share_seq(E_k, m_E, L, StdDtype)]

\* lines 668-672
maxpool_deriv_return(E_sh, U_sh, r, n1, n2) ==
    LET n == n1 * n2
        \* 4)
        g == r % n
        D_sh == roll(E_sh, -g)
        maxpool_d_sh == add_seq(D_sh, U_sh)
    IN  view_2d(maxpool_d_sh, n1, n2)

(***************************************************************************)
(* maxpool2d (securenn.py:675-728).  A 4-dimensional sharing holds its     *)
(* shares as a[batch][channel][row][col].                                  *)
(***************************************************************************)
\* torch.nn.functional.pad(a_sh, (p1, p1, p0, p0), "constant"): zeros are put
\* around every plane of both shares
pad(a_sh, p0, p1) ==
    LET padded(v) ==
          Vec([b \in 1..Len(v) |-> Vec([c \in 1..Len(v[b]) |->
            Vec([r \in 1..(Len(v[b][c]) + 2 * p0) |->
              Vec([k \in 1..(Len(v[b][c][1]) + 2 * p1) |->
                IF r > p0 /\ r <= p0 + Len(v[b][c]) /\ k > p1 /\ k <= p1 + Len(v[b][c][1])
                THEN v[b][c][r - p0][k - p1] ELSE 0])])])])
    IN  [a_sh EXCEPT !.a = padded(a_sh.a), !.b = padded(a_sh.b)]

\* a_sh[batch, channel, r_in : r_in + k0, c_in : c_in + k1], flattened row by
\* row as maxpool's view(-1) does (batch, channel, r_in, c_in count from 0)
window(a_sh, batch, channel, r_in, c_in, k0, k1) ==
    LET cut(v) == Vec([i \in 1..(k0 * k1) |->
                     v[batch + 1][channel + 1][r_in + ((i - 1) \div k1) + 1]
                                              [c_in + ((i - 1) % k1) + 1]])
    IN  [a_sh EXCEPT !.a = cut(a_sh.a), !.b = cut(a_sh.b)]

\* lines 683-716: the shapes, the padded input and the empty result list
maxpool2d_enter(a_sh, kernel_size, stride_, padding_) ==
    LET \* _pair
        kernel == <<kernel_size, kernel_size>>
        stride == <<stride_, stride_>>
        padding == <<padding_, padding_>>
        dilation == <<1, 1>>
        nb_rows_in == Len(a_sh.a[1][1])
        nb_cols_in == Len(a_sh.a[1][1][1])
        \* int(x / s + 1): the quotient is exact, int() drops the fraction
        int_plus_1(x, s) == TruncDiv(x + s, s)
    IN  [batch_size |-> Len(a_sh.a), nb_channels |-> Len(a_sh.a[1]),
         kernel |-> kernel, stride |-> stride,
         nb_rows_out |-> int_plus_1(nb_rows_in + 2 * padding[1]
                                    - dilation[1] * (kernel[1] - 1) - 1, stride[1]),
         nb_cols_out |-> int_plus_1(nb_cols_in + 2 * padding[2]
                                    - dilation[2] * (kernel[2] - 1) - 1, stride[2]),
         a_sh |-> IF padding # <<0, 0>> THEN pad(a_sh, padding[1], padding[2]) ELSE a_sh,
         nb_rows_in |-> IF padding # <<0, 0>> THEN nb_rows_in + 2 * padding[1] ELSE nb_rows_in,
         nb_cols_in |-> IF padding # <<0, 0>> THEN nb_cols_in + 2 * padding[2] ELSE nb_cols_in,
         res |-> <<>>]

\* the number of passes of the loops of lines 720-721 over r_in and c_in, and
\* of the four nested loops of lines 718-721 together
loop_passes(st) ==
    LET range_len(stop, step) == IF stop <= 0 THEN 0 ELSE (stop + step - 1) \div step
        rows == range_len(st.nb_rows_in - (st.kernel[1] - 1), st.stride[1])
        cols == range_len(st.nb_cols_in - (st.kernel[2] - 1), st.stride[2])
    IN  [rows |-> rows, cols |-> cols,
         all |-> st.batch_size * st.nb_channels * rows * cols]

\* the loop variables of pass k (from 0) of the nested loops
loop_vars(st, k) ==
    LET n == loop_passes(st)
    IN  [batch |-> k \div (st.nb_channels * n.rows * n.cols),
         channel |-> (k \div (n.rows * n.cols)) % st.nb_channels,
         r_in |-> ((k \div n.cols) % n.rows) * st.stride[1],
         c_in |-> (k % n.cols) * st.stride[2]]

\* lines 722-725: the window at the loop variables v is handed to maxpool
maxpool2d_window(st, v, RE, RS) ==
    maxpool(window(st.a_sh, v.batch, v.channel, v.r_in, v.c_in,
                   st.kernel[1], st.kernel[2]), RE, RS).max

\* line 727: torch.stack(res).reshape(batch_size, nb_channels, nb_rows_out,
\* nb_cols_out); the reshape needs as many elements as the shape holds
maxpool2d_result(st) ==
    IF Len(st.res) # st.batch_size * st.nb_channels * st.nb_rows_out * st.nb_cols_out
    THEN [error |-> "reshape"]
    ELSE Vec([b \in 1..st.batch_size |-> Vec([c \in 1..st.nb_channels |->
           Vec([i \in 1..st.nb_rows_out |-> Vec([j \in 1..st.nb_cols_out |->
             st.res[(((b - 1) * st.nb_channels + (c - 1)) * st.nb_rows_out + (i - 1))
                    * st.nb_cols_out + j]])])])])

(***************************************************************************)
(* private_compare run alone: the inputs are every bit sharing of every x  *)
(* in [0, L), every public r a torch integer can hold and both beta.       *)
(***************************************************************************)
CmpField == 2^CmpBits

\* the torch integers of the storage width of field L
TorchInts(L) == get_min_val_field(L)..get_max_val_field(L)

\* the masks of the input bit sharing: one mask per bit position
BitMasks(n) == {[i \in 1..n |-> 0], [i \in 1..n |-> get_max_val_field(p) - i]}

\* the tensors s and u are drawn from, torch.randint(1, p, shape): every entry
\* lies in [1, p - 1]
RandintTensors(n) ==
    {[i \in 1..n |-> 1], [i \in 1..n |-> p - i], [i \in 1..n |-> 2 * i]}

CmpInputs ==
    {[x_bit_sh |-> share_seq(bits, m, p, "custom"), r |-> r, beta |-> beta, L |-> CmpField] :
        bits \in [1..CmpBits -> {0, 1}], m \in BitMasks(CmpBits),
        r \in TorchInts(CmpField), beta \in RandomCommonBits}

InitCmp ==
    /\ pc = "start"
    /\ op = "private_compare"
    /\ inp \in CmpInputs
    /\ rnd = None
    /\ loc = None
    /\ out = None
    /\ n_mul = 0
    /\ n_zero = 0

PrivateCompare ==
    /\ pc = "start"
    /\ op = "private_compare"
    /\ \E s \in RandintTensors(CmpBits), u \in RandintTensors(CmpBits),
          perm \in Perms(CmpBits) :
         /\ rnd' = [s |-> s, u |-> u, perm |-> perm]
         /\ out' = private_compare(inp.x_bit_sh, inp.r, inp.beta, inp.L, s, u, perm)
    /\ pc' = "done"
    /\ UNCHANGED <<op, inp, loc, n_mul, n_zero>>

NextCmp == PrivateCompare

SpecCmp == InitCmp /\ [][NextCmp]_vars

\* the plaintext x of the bit sharing handed to private_compare
CmpX == BitsValue(reconstruct_seq(inp.x_bit_sh))

Xor(a, b) == IF a = b THEN 0 ELSE 1

CmpDone == op = "private_compare" /\ pc = "done"

\* C1: private_compare returns beta XOR (x > r) for every x in [0, L), every
\* public r >= 0 and both beta, the boundary r = get_r_mask(L) included.
C1_ReturnsBetaXorGreater ==
    (CmpDone /\ inp.r >= 0)
        => out.res = Xor(inp.beta, IF CmpX > inp.r THEN 1 ELSE 0)

\* C2: the vector opened at the crypto provider holds no zero or exactly one
\* zero, for every x, r, beta, s and perm, and the result is that count.
C2_ZeroCountIsBit ==
    CmpDone
        => /\ Cardinality({i \in 1..CmpBits : out.d[i] = 0}) \in {0, 1}
           /\ out.res = Cardinality({i \in 1..CmpBits : out.d[i] = 0})

\* the plaintext of the vector c of one branch of private_compare, written out
\* from the bits x of the input and a bit vector b: at position i the
\* difference of the two bits (b - x when beta = 0, x - b when beta = 1),
\* plus 1, plus the sum over the higher positions of x + b - 2 * b * x
CmpVector(x, b, beta) ==
    [i \in 1..Len(x) |->
        (IF beta = 0 THEN b[i] - x[i] ELSE x[i] - b[i]) + 1
        + SumTo([k \in 1..Len(x) |-> IF k > i THEN x[k] + b[k] - 2 * b[k] * x[k] ELSE 0],
                Len(x))]

\* the vector the crypto provider opened is s * c, permuted, for the vector c
\* built from the bit vector b
CmpOpenedFrom(b) ==
    \A i \in 1..Len(out.d) :
        out.d[i] = modulo(rnd.s[rnd.perm[i]]
                          * CmpVector(reconstruct_seq(inp.x_bit_sh), b, inp.beta)[rnd.perm[i]], p)

\* C17 as stated: the vector used when beta = 0 is built from the bits of
\* r + 1, and the one used when beta = 1 and r is not the field maximum from
\* the bits of r
C17_Beta0FromT_Beta1FromR ==
    (CmpDone /\ (inp.beta = 0 \/ inp.r # get_r_mask(inp.L))) =>
        CmpOpenedFrom(IF inp.beta = 0 THEN decompose(TorchInt(inp.r + 1, inp.L), inp.L)
                      ELSE decompose(inp.r, inp.L))

\* C17 amended: the vector used when beta = 0 is built from the bits of r,
\* and the one used when beta = 1 and r is not the field maximum from the bits
\* of r + 1
C17_Beta0FromR_Beta1FromT ==
    (CmpDone /\ (inp.beta = 0 \/ inp.r # get_r_mask(inp.L))) =>
        CmpOpenedFrom(IF inp.beta = 0 THEN decompose(inp.r, inp.L)
                      ELSE decompose(TorchInt(inp.r + 1, inp.L), inp.L))

C17_Witness == CmpDone /\ inp.beta = 1 /\ inp.r = 1 /\ out.res = 1

(***************************************************************************)
(* The randomness of the calls of the top-level operators.  x ranges over  *)
(* every value random_ can return; the masks of the fresh sharings, s, u   *)
(* and perm range over samples (private_compare run alone takes every      *)
(* perm).                                                                  *)
(***************************************************************************)
Field == 2^NBits

\* the masks a fresh sharing in a field is drawn with
Masks(field) == {1, get_min_val_field(field)}

\* torch.randperm(n), sampled: the identity and the reversal
PermSamples(n) == {[i \in 1..n |-> i], [i \in 1..n |-> n + 1 - i]}

\* x = torch.tensor(shape).random_(get_max_val_field(L - 1)) lies in
\* [0, get_max_val_field(L - 1) - 1]
MsbBlinds(L) == 0..(get_max_val_field(L - 1) - 1)

\* the randomness of one call of msb, with the masks taken from M, s and u
\* from S and perm from P
MsbRandomnessOver(L, M, S, P) ==
    {[beta |-> beta, x |-> x, m_u |-> m, m_x |-> m + 1, m_x0 |-> m + 2,
      m_xbit |-> [i \in 1..get_n_bits(L) |-> m + i], m_bp |-> m + 3, m_theta |-> m + 4,
      s |-> s, u |-> s, perm |-> perm] :
        beta \in RandomCommonBits, x \in MsbBlinds(L), m \in M, s \in S, perm \in P}

MsbRandomness(L) ==
    MsbRandomnessOver(L, Masks(L),
                      {[i \in 1..get_n_bits(L) |-> 1], [i \in 1..get_n_bits(L) |-> p - i]},
                      PermSamples(get_n_bits(L)))

\* the randomness of one call of relu_deriv
ReluDerivRandomness(L) ==
    {[m_u |-> m, m_conv |-> m + 1, msb |-> R] :
        m \in {1},
        R \in MsbRandomnessOver(L, {1}, {[i \in 1..get_n_bits(L) |-> p - i]},
                                {[i \in 1..get_n_bits(L) |-> get_n_bits(L) + 1 - i]})}

\* the randomness of one call of relu
ReluRandomness(L) ==
    {[m_u |-> m, m_mul |-> m + 1, deriv |-> R] : m \in {1}, R \in ReluDerivRandomness(L)}

(***************************************************************************)
(* msb run alone on every a of the balanced range of field L - 1.          *)
(***************************************************************************)
MsbInputs ==
    {[a_sh |-> share(a, m, Field - 1, "custom")] :
        a \in get_min_val_field(Field - 1)..get_max_val_field(Field - 1),
        m \in Masks(Field - 1)}

InitMsb ==
    /\ pc = "start"
    /\ op = "msb"
    /\ inp \in MsbInputs
    /\ rnd = None
    /\ loc = None
    /\ out = None
    /\ n_mul = 0
    /\ n_zero = 0

Msb ==
    /\ pc = "start"
    /\ op = "msb"
    /\ \E R \in MsbRandomness(inp.a_sh.field + 1) :
         /\ rnd' = R
         /\ out' = msb(inp.a_sh, R)
    /\ pc' = "done"
    /\ n_mul' = n_mul + msb_muls
    /\ n_zero' = n_zero + msb_zero_shares
    /\ UNCHANGED <<op, inp, loc>>

NextMsb == Msb

SpecMsb == InitMsb /\ [][NextMsb]_vars

MsbDone == op = "msb" /\ pc = "done"

\* C3: for every signed a of the balanced range of the field of a_sh, every
\* blind x and every beta, the plaintext of msb(a_sh) is 1 iff a < 0, else 0.
C3_MsbIsSign ==
    MsbDone
        => reconstruct(out.a) = (IF reconstruct(inp.a_sh) < 0 THEN 1 ELSE 0)

\* C19: whenever beta and the result beta' of private_compare are bits, the
\* plaintext of the value msb returns, gamma + delta - 2 * theta + u, is
\* beta XOR beta' XOR r_0 XOR x_0, with r_0 and x_0 the least-significant bits
\* of the opened r and of the blind x
C19_CombinesByXor ==
    (MsbDone /\ out.beta_prime \in {0, 1}) =>
        reconstruct(out.a) = Xor(Xor(rnd.beta, out.beta_prime), Xor(out.r % 2, rnd.x % 2))

\* C19 for the calls that open r >= 0
C19_CombinesByXorNonNegative ==
    (MsbDone /\ out.beta_prime \in {0, 1} /\ out.r >= 0) =>
        reconstruct(out.a) = Xor(Xor(rnd.beta, out.beta_prime), Xor(out.r % 2, rnd.x % 2))

(***************************************************************************)
(* relu_deriv and relu run alone on every a of the field, shared with      *)
(* masks that make the shares of 2a sum without and with a wrap around L.  *)
(***************************************************************************)
InputMasks(L) == {1, get_min_val_field(L), L \div 4}

ReluInputs ==
    {[a_sh |-> share(a, m, Field, StdDtype)] :
        a \in get_min_val_field(Field)..get_max_val_field(Field), m \in InputMasks(Field)}

InitRelu ==
    /\ pc = "start"
    /\ op \in {"relu_deriv", "relu"}
    /\ inp \in ReluInputs
    /\ rnd = None
    /\ loc = None
    /\ out = None
    /\ n_mul = 0
    /\ n_zero = 0

ReluDeriv ==
    /\ pc = "start"
    /\ op = "relu_deriv"
    /\ \E R \in ReluDerivRandomness(inp.a_sh.field) :
         /\ rnd' = R
         /\ out' = relu_deriv(inp.a_sh, R)
    /\ pc' = "done"
    /\ n_mul' = n_mul + relu_deriv_muls
    /\ n_zero' = n_zero + relu_deriv_zero_shares
    /\ UNCHANGED <<op, inp, loc>>

Relu ==
    /\ pc = "start"
    /\ op = "relu"
    /\ \E R \in ReluRandomness(inp.a_sh.field) :
         /\ rnd' = R
         /\ out' = relu(inp.a_sh, R)
    /\ pc' = "done"
    /\ n_mul' = n_mul + relu_muls
    /\ n_zero' = n_zero + relu_zero_shares
    /\ UNCHANGED <<op, inp, loc>>

NextRelu == ReluDeriv \/ Relu

SpecRelu == InitRelu /\ [][NextRelu]_vars

\* C4: the plaintext of relu_deriv(share(a)) is 1 iff a > 0 and 0 whenever
\* a <= 0; the tie a = 0 yields 0.
C4_ReluDerivIsPositive ==
    (op = "relu_deriv" /\ pc = "done")
        => reconstruct(out) = (IF reconstruct(inp.a_sh) > 0 THEN 1 ELSE 0)

\* C5: the plaintext of relu(share(a)) is max(a, 0).
C5_ReluIsMax ==
    (op = "relu" /\ pc = "done")
        => reconstruct(out) = Max(reconstruct(inp.a_sh), 0)

(***************************************************************************)
(* division run alone.  The loop is one step per trial bit.                *)
(***************************************************************************)
\* the largest bit_len_max handed to division
MaxTrialBits == 3
\* the largest |x| and |y| handed to division
MaxDividend == 7
MaxDivisor == 3

\* the blinds x drawn inside msb in the calls a loop makes: the least, the
\* middle and the largest value of MsbBlinds(L)
BlindSamples(L) ==
    {0, (get_max_val_field(L - 1) - 1) \div 2, get_max_val_field(L - 1) - 1}

\* the randomness of one call of relu_deriv inside a loop
LoopRandomness(L) == {R \in ReluDerivRandomness(L) : R.msb.x \in BlindSamples(L)}

DivisionInputs ==
    {[x_sh |-> share(x, m, Field, StdDtype), y_sh |-> share(y, m + 1, Field, StdDtype),
      bit_len_max |-> b] :
        x \in (-MaxDividend)..MaxDividend,
        y \in ((-MaxDivisor)..MaxDivisor) \ {0},
        m \in {1}, b \in 1..MaxTrialBits}

InitDiv ==
    /\ pc = "start"
    /\ op = "division"
    /\ inp \in DivisionInputs
    /\ rnd = None
    /\ loc = None
    /\ out = None
    /\ n_mul = 0
    /\ n_zero = 0

\* lines 525-526: a call without bit_len_max (args holds no such field) takes
\* half the storage width
division_bit_len_max(args, L) ==
    IF "bit_len_max" \in DOMAIN args THEN args.bit_len_max ELSE Q_BITS(L) \div 2

\* lines 518-540
DivisionEnter ==
    /\ pc = "start"
    /\ op = "division"
    /\ inp.x_sh.dtype = inp.y_sh.dtype /\ inp.y_sh.dtype # "custom"
    /\ \E m \in Masks(inp.x_sh.field) :
         LET L == inp.x_sh.field
             bit_len_max == division_bit_len_max(inp, L)
         IN  loc' = [w_sh |-> [k \in 1..bit_len_max |-> shares_of_zero(m + k, L, StdDtype)],
                     s_sh |-> shares_of_zero(m, L, StdDtype),
                     u_sh |-> shares_of_zero(m - 1, L, StdDtype),
                     ks |-> <<>>,
                     i |-> bit_len_max - 1]
    /\ n_zero' = n_zero + 3
    /\ pc' = "loop"
    /\ UNCHANGED <<op, inp, rnd, out, n_mul>>

\* lines 541-556
DivisionStep ==
    /\ pc = "loop"
    /\ op = "division"
    /\ loc.i >= 0
    /\ \E R \in LoopRandomness(inp.x_sh.field) :
         \E st \in {division_step(inp.x_sh, inp.y_sh, loc.u_sh, loc.w_sh, loc.ks, loc.i,
                                   R, R.m_u)} :
           /\ loc' = [loc EXCEPT !.ks = st.ks, !.u_sh = st.u_sh, !.i = loc.i - 1]
           /\ rnd' = R
    /\ n_mul' = n_mul + relu_deriv_muls + 1
    /\ n_zero' = n_zero + relu_deriv_zero_shares
    /\ UNCHANGED <<pc, op, inp, out>>

\* lines 558-564
DivisionReturn ==
    /\ pc = "loop"
    /\ op = "division"
    /\ loc.i < 0
    /\ out' = division_result(loc.ks, loc.s_sh)
    /\ pc' = "done"
    /\ UNCHANGED <<op, inp, rnd, loc, n_mul, n_zero>>

NextDiv == DivisionEnter \/ DivisionStep \/ DivisionReturn

SpecDiv == InitDiv /\ [][NextDiv]_vars

\* floor(x / y) for y # 0
FloorDiv(x, y) == IF y > 0 THEN x \div y ELSE (-x) \div (-y)

\* C6: for x and y # 0 of matching sign whose quotient fits in bit_len_max
\* bits and with 2^(bit_len_max - 1) * y inside the field's range, the plaintext
\* of division(share(x), share(y), bit_len_max) is floor(x / y).
C6_DivisionIsFloor ==
    LET x == reconstruct(inp.x_sh)
        y == reconstruct(inp.y_sh)
    IN  (/\ op = "division" /\ pc = "done"
         /\ (x > 0 /\ y > 0) \/ (x < 0 /\ y < 0)
         /\ FloorDiv(x, y) < 2^inp.bit_len_max
         /\ 2^(inp.bit_len_max - 1) * y >= get_min_val_field(inp.x_sh.field)
         /\ 2^(inp.bit_len_max - 1) * y <= get_max_val_field(inp.x_sh.field))
            => reconstruct(out) = FloorDiv(x, y)

\* the plaintexts of the quotient bits recorded so far
RecordedBits == [k \in 1..Len(loc.ks) |-> reconstruct(loc.ks[k])]

\* x >= 0, y > 0 and nothing the loop computes leaves the field's range
DivisionInRange ==
    /\ reconstruct(inp.x_sh) >= 0
    /\ reconstruct(inp.y_sh) > 0
    /\ 2^division_bit_len_max(inp, inp.x_sh.field) * reconstruct(inp.y_sh)
         <= get_max_val_field(inp.x_sh.field)

\* C21 (the bookkeeping): after every iteration the running amount u_sh holds
\* y times the sum of the recorded values, reduced to the field
C21_RunningAmountIsRecorded ==
    (op = "division" /\ pc = "loop" /\ DivisionInRange) =>
        reconstruct(loc.u_sh)
          = modulo(reconstruct(inp.y_sh) * SumTo(RecordedBits, Len(loc.ks)), inp.x_sh.field)

\* C21: for x >= 0 and y > 0 with no field overflow, after every iteration of
\* the loop the running amount u_sh holds y times the sum of the quotient bits
\* recorded so far and does not exceed x; the value recorded for trial bit i
\* is 0 or 2^i, so the quotient lies in [0, 2^bit_len_max - 1]
C21_RunningAmountWithinDividend ==
    (op = "division" /\ pc = "loop" /\ DivisionInRange) =>
        /\ reconstruct(loc.u_sh) = reconstruct(inp.y_sh) * SumTo(RecordedBits, Len(loc.ks))
        /\ reconstruct(loc.u_sh) <= reconstruct(inp.x_sh)
        /\ \A k \in 1..Len(loc.ks) :
             RecordedBits[k] \in {0, 2^(division_bit_len_max(inp, inp.x_sh.field) - k)}
        /\ SumTo(RecordedBits, Len(loc.ks))
             \in 0..(2^division_bit_len_max(inp, inp.x_sh.field) - 1)

(***************************************************************************)
(* select_share run alone on every pair x, y of the field and both bits.   *)
(***************************************************************************)
SelectInputs ==
    {[alpha_sh |-> share(alpha, m, Field, StdDtype),
      x_sh |-> share(x, m + 1, Field, StdDtype),
      y_sh |-> share(y, m + 2, Field, StdDtype)] :
        alpha \in {0, 1}, m \in {1},
        x \in get_min_val_field(Field)..get_max_val_field(Field),
        y \in get_min_val_field(Field)..get_max_val_field(Field)}

\* the randomness of one call of select_share
SelectRandomness(L) == {[m_u |-> m, m_c |-> m + 3] : m \in Masks(L)}

InitSelect ==
    /\ pc = "start"
    /\ op = "select_share"
    /\ inp \in SelectInputs
    /\ rnd = None
    /\ loc = None
    /\ out = None
    /\ n_mul = 0
    /\ n_zero = 0

SelectShare ==
    /\ pc = "start"
    /\ op = "select_share"
    /\ select_share_dtypes_ok(inp.alpha_sh, inp.x_sh, inp.y_sh)
    /\ \E R \in SelectRandomness(inp.alpha_sh.field) :
         /\ rnd' = R
         /\ out' = select_share(inp.alpha_sh, inp.x_sh, inp.y_sh, R)
    /\ n_mul' = n_mul + select_share_muls
    /\ n_zero' = n_zero + select_share_zero_shares
    /\ pc' = "done"
    /\ UNCHANGED <<op, inp, loc>>

NextSelect == SelectShare

SpecSelect == InitSelect /\ [][NextSelect]_vars

\* C10: select_share(alpha, x, y) returns a sharing of y when alpha decrypts
\* to 1 and of x when alpha decrypts to 0, after exactly one secure
\* multiplication.
C10_SelectsByAlpha ==
    (op = "select_share" /\ pc = "done")
        => /\ reconstruct(out) = (IF reconstruct(inp.alpha_sh) = 1
                                  THEN reconstruct(inp.y_sh)
                                  ELSE reconstruct(inp.x_sh))
           /\ n_mul = 1

\* select_share has returned y for alpha = 1 where y - x wraps around the field
C10_Witness ==
    /\ op = "select_share" /\ pc = "done"
    /\ reconstruct(inp.alpha_sh) = 1
    /\ reconstruct(inp.x_sh) = get_min_val_field(Field)
    /\ reconstruct(inp.y_sh) = get_max_val_field(Field)
    /\ reconstruct(out) = get_max_val_field(Field)
    /\ n_mul = 1

(***************************************************************************)
(* maxpool run alone.  The tournament is one step per element.             *)
(***************************************************************************)
\* the largest length of the flattened input of maxpool
MaxLen == 4

\* the plaintext elements of the inputs of maxpool
PoolValues == {-1, 3, 7}

\* the randomness of the entry and of one step of maxpool
MaxpoolEnterRandomness(L) == {[m_u |-> m, m_v |-> m + 1, m_ind |-> m + 2] : m \in Masks(L)}

MaxpoolStepRandomness(L) ==
    {[deriv |-> R, sel_max |-> [m_u |-> 2, m_c |-> 3], sel_ind |-> [m_u |-> 4, m_c |-> 5],
      m_k |-> 6] : R \in LoopRandomness(L)}

MaxpoolInputs ==
    {[x_sh |-> share_seq(x, [i \in 1..Len(x) |-> i], Field, StdDtype)] :
        x \in UNION {[1..n -> PoolValues] : n \in 1..MaxLen}}

InitMax ==
    /\ pc = "start"
    /\ op = "maxpool"
    /\ inp \in MaxpoolInputs
    /\ rnd = None
    /\ loc = None
    /\ out = None
    /\ n_mul = 0
    /\ n_zero = 0

\* lines 578-599
MaxpoolEnter ==
    /\ pc = "start"
    /\ op = "maxpool"
    /\ inp.x_sh.dtype # "custom"
    /\ \E R \in MaxpoolEnterRandomness(inp.x_sh.field) :
         loc' = [st |-> maxpool_enter(inp.x_sh, R), i |-> 1]
    /\ n_zero' = n_zero + 2
    /\ pc' = "loop"
    /\ UNCHANGED <<op, inp, rnd, out, n_mul>>

\* lines 601-617
MaxpoolStep ==
    /\ pc = "loop"
    /\ op = "maxpool"
    /\ loc.i < Len(inp.x_sh.a)
    /\ \E R \in MaxpoolStepRandomness(inp.x_sh.field) :
         /\ loc' = [st |-> maxpool_next(loc.st, maxpool_step(inp.x_sh, loc.st.max_sh,
                                                              loc.st.ind_sh, loc.i, R)),
                    i |-> loc.i + 1]
         /\ rnd' = R
    /\ n_mul' = n_mul + relu_deriv_muls + 2 * select_share_muls
    /\ n_zero' = n_zero + relu_deriv_zero_shares + 2 * select_share_zero_shares
    /\ UNCHANGED <<pc, op, inp, out>>

\* line 619
MaxpoolReturn ==
    /\ pc = "loop"
    /\ op = "maxpool"
    /\ loc.i >= Len(inp.x_sh.a)
    /\ out' = maxpool_result(loc.st)
    /\ pc' = "done"
    /\ UNCHANGED <<op, inp, rnd, loc, n_mul, n_zero>>

NextMax == MaxpoolEnter \/ MaxpoolStep \/ MaxpoolReturn

SpecMax == InitMax /\ [][NextMax]_vars

\* the greatest element of a non-empty sequence of integers
MaxOf(x) == CHOOSE v \in {x[i] : i \in 1..Len(x)} : \A i \in 1..Len(x) : x[i] <= v

\* the first 0-based position at which v occurs in x
FirstIndexOf(x, v) ==
    CHOOSE i \in 0..(Len(x) - 1) : x[i + 1] = v /\ \A k \in 0..(i - 1) : x[k + 1] # v

\* C7: for every flattened input of length n >= 1 the first value returned by
\* maxpool decrypts to the maximum of the input's plaintext elements.
C7_MaxpoolReturnsMax ==
    (op = "maxpool" /\ pc = "done")
        => reconstruct(out.max) = MaxOf(reconstruct_seq(inp.x_sh))

\* C8: the second value returned by maxpool decrypts to the first (smallest)
\* flat index at which the maximum occurs, also when it occurs more than once.
C8_MaxpoolReturnsFirstIndex ==
    (op = "maxpool" /\ pc = "done")
        => reconstruct(out.ind)
             = FirstIndexOf(reconstruct_seq(inp.x_sh), MaxOf(reconstruct_seq(inp.x_sh)))

\* C22: after every step of maxpool's tournament (steps 1 .. loc.i - 1 are
\* done) the plaintext of the running index ind_sh is an index in
\* [0, loc.i - 1] whose input element equals the plaintext of the running
\* maximum max_sh
C22_IndexPointsAtMax ==
    (op = "maxpool" /\ pc = "loop") =>
        /\ reconstruct(loc.st.ind_sh) \in 0..(loc.i - 1)
        /\ reconstruct_seq(inp.x_sh)[reconstruct(loc.st.ind_sh) + 1]
             = reconstruct(loc.st.max_sh)

\* C22 (the order): a step consumes the max_sh and ind_sh of the step before
\* it and moves on to the next element
C22_StepsInOrder ==
    [][(op = "maxpool" /\ pc = "loop" /\ pc' = "loop") =>
          /\ loc'.i = loc.i + 1
          /\ \E R \in MaxpoolStepRandomness(inp.x_sh.field) :
               loc'.st = maxpool_next(loc.st, maxpool_step(inp.x_sh, loc.st.max_sh,
                                                           loc.st.ind_sh, loc.i, R))]_vars

(***************************************************************************)
(* maxpool_deriv run alone on every two-dimensional input of at most       *)
(* MaxLen elements and every offset r of the field.                        *)
(***************************************************************************)
\* the plaintext elements of the inputs of maxpool_deriv
DerivValues == {-1, 3}

\* the shapes n1 x n2 of the inputs
Shapes == {s \in (1..MaxLen) \X (1..MaxLen) : s[1] * s[2] <= MaxLen}

\* the sharings of the inputs of shape s, row r masked with r + c
DerivInputsOf(s) ==
    {[a |-> Vec([r \in 1..s[1] |-> Vec([c \in 1..s[2] |-> modulo(r + c, Field)])]),
      b |-> Vec([r \in 1..s[1] |-> Vec([c \in 1..s[2] |-> modulo(x[r][c] - (r + c), Field)])]),
      field |-> Field, dtype |-> StdDtype] :
        x \in [1..s[1] -> [1..s[2] -> DerivValues]]}

DerivInputs == {[x_sh |-> x_sh] : x_sh \in UNION {DerivInputsOf(s) : s \in Shapes}}

\* the randomness of the call of maxpool inside maxpool_deriv: the steps of
\* one call draw alike
MaxpoolRandomness(L, n) ==
    {[enter |-> [m_u |-> 1, m_v |-> 2, m_ind |-> 3], steps |-> [i \in 1..n |-> R]] :
        R \in MaxpoolStepRandomness(L)}

InitDeriv ==
    /\ pc = "start"
    /\ op = "maxpool_deriv"
    /\ inp \in DerivInputs
    /\ rnd = None
    /\ loc = None
    /\ out = None
    /\ n_mul = 0
    /\ n_zero = 0

\* lines 632-652
MaxpoolDerivEnter ==
    /\ pc = "start"
    /\ op = "maxpool_deriv"
    /\ inp.x_sh.dtype # "custom"
    /\ LET L == inp.x_sh.field
           n1 == Len(inp.x_sh.a)
           n2 == Len(inp.x_sh.a[1])
           n == n1 * n2
           x_sh == view_flat(inp.x_sh)
       IN  /\ \E RM \in MaxpoolRandomness(L, n) :
                LET mp == maxpool(x_sh, RM.enter, RM.steps)
                IN  \E r \in RandomCommonValues(L), m \in Masks(L) :
                      /\ loc' = [n1 |-> n1, n2 |-> n2, n |-> n,
                                 \* Common Randomness
                                 U_sh |-> share_seq([i \in 1..n |-> 0], [i \in 1..n |-> m + i],
                                                    L, StdDtype),
                                 r |-> r,
                                 \* 1)
                                 ind_max_sh |-> mp.ind,
                                 t |-> None, k |-> None, E_sh |-> None]
                      /\ rnd' = RM
           /\ n_mul' = n_mul + (n - 1) * (relu_deriv_muls + 2 * select_share_muls)
           /\ n_zero' = n_zero + 1 + 2
                          + (n - 1) * (relu_deriv_zero_shares + 2 * select_share_zero_shares)
    /\ pc' = "reveal"
    /\ UNCHANGED <<op, inp, out>>

\* lines 655-665
MaxpoolDerivReveal ==
    /\ pc = "reveal"
    /\ op = "maxpool_deriv"
    /\ \E m \in {1} :
         LET rv == maxpool_deriv_reveal(loc.ind_max_sh, loc.r, loc.n, [i \in 1..loc.n |-> m + i])
         IN  loc' = [loc EXCEPT !.t = rv.t, !.k = rv.k, !.E_sh = rv.E_sh]
    /\ pc' = "roll"
    /\ UNCHANGED <<op, inp, rnd, out, n_mul, n_zero>>

\* lines 668-672
MaxpoolDerivReturn ==
    /\ pc = "roll"
    /\ op = "maxpool_deriv"
    /\ out' = maxpool_deriv_return(loc.E_sh, loc.U_sh, loc.r, loc.n1, loc.n2)
    /\ pc' = "done"
    /\ UNCHANGED <<op, inp, rnd, loc, n_mul, n_zero>>

NextDeriv == MaxpoolDerivEnter \/ MaxpoolDerivReveal \/ MaxpoolDerivReturn

SpecDeriv == InitDeriv /\ [][NextDeriv]_vars

\* the plaintext of a two-dimensional sharing at row-major position pos
PlainAt(sh, n2, pos) ==
    modulo(sh.a[(pos \div n2) + 1][(pos % n2) + 1] + sh.b[(pos \div n2) + 1][(pos % n2) + 1],
           sh.field)

\* C9: for every two-dimensional input and every offset r that
\* _random_common_value can return, the output of maxpool_deriv has the shape
\* of the input and its plaintext is 1 at the row-major position equal to the
\* index returned by maxpool and 0 at every other position, also when
\* ind + r wraps around the field.
C9_DerivIsOneHotAtIndex ==
    (op = "maxpool_deriv" /\ pc = "done")
        => /\ Len(out.a) = loc.n1
           /\ \A r \in 1..loc.n1 : Len(out.a[r]) = loc.n2
           /\ \A pos \in 0..(loc.n - 1) :
                PlainAt(out, loc.n2, pos)
                  = (IF pos = reconstruct(loc.ind_max_sh) THEN 1 ELSE 0)

(***************************************************************************)
(* share_convert run alone on every pair of shares of the field L.         *)
(***************************************************************************)
ConvInputs ==
    {[a_sh |-> [a |-> a, b |-> b, field |-> Field, dtype |-> StdDtype]] :
        a \in TorchInts(Field), b \in TorchInts(Field)}

InitConv ==
    /\ pc = "start"
    /\ op = "share_convert"
    /\ inp \in ConvInputs
    /\ rnd = None
    /\ loc = None
    /\ out = None
    /\ n_mul = 0
    /\ n_zero = 0

\* lines 352-439
ShareConvert ==
    /\ pc = "start"
    /\ op = "share_convert"
    /\ inp.a_sh.dtype # "custom"
    /\ \E m_u \in Masks(inp.a_sh.field - 1) :
         /\ rnd' = [m_u |-> m_u]
         /\ out' = share_convert(inp.a_sh, m_u)
    /\ n_zero' = n_zero + share_convert_zero_shares
    /\ pc' = "done"
    /\ UNCHANGED <<op, inp, loc, n_mul>>

NextConv == ShareConvert

SpecConv == InitConv /\ [][NextConv]_vars

\* C11: for every pair of shares that sums to a modulo L, also a pair whose
\* integer sum wraps around L, share_convert returns a sharing of field L - 1
\* whose two shares sum to the same a modulo L - 1.
C11_ConvertKeepsSecret ==
    (op = "share_convert" /\ pc = "done")
        => /\ out.field = inp.a_sh.field - 1
           /\ (out.a + out.b - reconstruct(inp.a_sh)) % (inp.a_sh.field - 1) = 0

(***************************************************************************)
(* What the crypto provider can see of private_compare: for one input, the *)
(* vectors it opens over every s and every perm the holders can draw.      *)
(***************************************************************************)
\* the bit width of the inputs whose views are enumerated
HideBits == 2

HideField == 2^HideBits

\* torch.randint(1, p, shape): every tensor with entries in [1, p - 1]
RandintAll(n) == [1..n -> 1..(p - 1)]

HideInputs ==
    {[x_bit_sh |-> share_seq(bits, m, p, "custom"), r |-> r, beta |-> beta, L |-> HideField] :
        bits \in [1..HideBits -> {0, 1}], m \in BitMasks(HideBits),
        r \in TorchInts(HideField), beta \in RandomCommonBits}

\* the tensors and scalars private_compare sends, each with its receivers:
\* s, u, perm (lines 197-199) and the role index (lines 201-203) go to the
\* holders, r and beta are MultiPointerTensors held by the holders, and the
\* permuted mask goes to the crypto provider (line 255)
private_compare_sends ==
    {[what |-> "s", to |-> {"alice", "bob"}],
     [what |-> "u", to |-> {"alice", "bob"}],
     [what |-> "perm", to |-> {"alice", "bob"}],
     [what |-> "j", to |-> {"alice", "bob"}],
     [what |-> "l1_mask", to |-> {"alice", "bob"}],
     [what |-> "r", to |-> {"alice", "bob"}],
     [what |-> "beta", to |-> {"alice", "bob"}],
     [what |-> "permuted_mask", to |-> {"crypto_provider"}]}

\* the vectors the crypto provider can open on input i with the common u
helper_views(i, u) ==
    LET n == Len(i.x_bit_sh.a)
        field == i.x_bit_sh.field
    IN  UNION {{private_compare_hide(c_a, c_b, s, perm, field, i.x_bit_sh.dtype).d :
                    s \in RandintAll(n), perm \in Perms(n)} :
               c_a \in {holder_c(i.x_bit_sh.a, 0, i.r, i.beta, i.L, u, field)},
               c_b \in {holder_c(i.x_bit_sh.b, 1, i.r, i.beta, i.L, u, field)}}

InitHide ==
    /\ pc = "start"
    /\ op = "private_compare"
    /\ inp \in HideInputs
    /\ rnd = None
    /\ loc = None
    /\ out = None
    /\ n_mul = 0
    /\ n_zero = 0

\* every run of private_compare on the input with one u
PrivateCompareRuns ==
    /\ pc = "start"
    /\ op = "private_compare"
    /\ \E u \in RandintTensors(HideBits) :
         /\ rnd' = [u |-> u]
         /\ loc' = [views |-> helper_views(inp, u), sends |-> private_compare_sends]
         /\ out' = private_compare(inp.x_bit_sh, inp.r, inp.beta, inp.L, u, u,
                                   [i \in 1..HideBits |-> i])
    /\ pc' = "done"
    /\ UNCHANGED <<op, inp, n_mul, n_zero>>

NextHide == PrivateCompareRuns

SpecHide == InitHide /\ [][NextHide]_vars

\* the result of private_compare on input i (it does not depend on s, perm)
hide_result(i) ==
    private_compare(i.x_bit_sh, i.r, i.beta, i.L, [k \in 1..HideBits |-> 1],
                    [k \in 1..HideBits |-> 1], [k \in 1..HideBits |-> k]).res

\* every vector of n entries of the field p that holds exactly k zeros
VectorsWithZeros(n, k) ==
    {v \in [1..n -> TorchInts(p)] : Cardinality({i \in 1..n : v[i] = 0}) = k}

BlindLen == 2

\* the elements of the inputs of several elements
BlindValues == {-1, 0, 1, 7}

BlindInputs ==
    {[a_sh |-> share_seq(a, [i \in 1..Len(a) |-> i], Field - 1, "custom")] :
        a \in [1..1 -> TorchInts(Field - 1)]
              \cup UNION {[1..n -> BlindValues] : n \in 2..BlindLen}}

\* the tensors r the holders can open on input i
revealed_values(i) ==
    {msb_reveal_seq(i.a_sh, [x |-> x, m_x |-> 1]) : x \in MsbBlinds(i.a_sh.field + 1)}

InitBlind ==
    /\ pc = "start"
    /\ op = "msb"
    /\ inp \in BlindInputs
    /\ rnd = None
    /\ loc = None
    /\ out = None
    /\ n_mul = 0
    /\ n_zero = 0

\* steps 1)-3) of msb on the input, for every blind
MsbRevealRuns ==
    /\ pc = "start"
    /\ op = "msb"
    /\ loc' = [views |-> revealed_values(inp)]
    /\ pc' = "revealed"
    /\ UNCHANGED <<op, inp, rnd, out, n_mul, n_zero>>

NextBlind == MsbRevealRuns

SpecBlind == InitBlind /\ [][NextBlind]_vars

BlindTable == [i \in BlindInputs |-> revealed_values(i)]

\* C13: r = reveal(2a + x) is perfectly blinded by x: any two inputs a and a'
\* of the same shape, of one element or of several, have the same set of
\* revealed tensors r over all choices of x.
C13_RevealIsBlinded ==
    (op = "msb" /\ pc = "revealed")
        => \A i \in BlindInputs :
             Len(i.a_sh.a) = Len(inp.a_sh.a) => BlindTable[i] = loc.views

(***************************************************************************)
(* maxpool2d run alone.  The input planes hold one of two value patterns;  *)
(* every call of maxpool inside one run draws the same randomness.         *)
(***************************************************************************)
MaxDim == 2

\* the value at [b, c, r, k] (from 1) of pattern q
PlaneValue(q, b, c, r, k) ==
    IF q = 0 THEN ((b + 2 * c + 3 * r + k) % 5) - 1
    ELSE 7 - ((2 * b + c + r + 3 * k) % 4)

Pool2dInputs ==
    {[a_sh |-> [a |-> Vec([b \in 1..B |-> Vec([c \in 1..C |-> Vec([r \in 1..H |->
                       Vec([k \in 1..W |-> b + c + r + k])])])]),
                b |-> Vec([b \in 1..B |-> Vec([c \in 1..C |-> Vec([r \in 1..H |->
                       Vec([k \in 1..W |->
                            modulo(PlaneValue(q, b, c, r, k) - (b + c + r + k), Field)])])])]),
                field |-> Field, dtype |-> StdDtype],
      kernel_size |-> ker, stride |-> str, padding |-> pd] :
        B \in 1..MaxDim, C \in 1..MaxDim, H \in 1..MaxDim, W \in 1..MaxDim,
        q \in 0..1, ker \in 1..MaxDim, str \in 1..MaxDim, pd \in 0..1}

InitPool2d ==
    /\ pc = "start"
    /\ op = "maxpool2d"
    /\ inp \in {i \in Pool2dInputs :
                  /\ i.kernel_size <= Len(i.a_sh.a[1][1]) + 2 * i.padding
                  /\ i.kernel_size <= Len(i.a_sh.a[1][1][1]) + 2 * i.padding}
    /\ rnd = None
    /\ loc = None
    /\ out = None
    /\ n_mul = 0
    /\ n_zero = 0

\* lines 683-716
MaxPool2dEnter ==
    /\ pc = "start"
    /\ op = "maxpool2d"
    /\ inp.a_sh.dtype # "custom"
    /\ loc' = [st |-> maxpool2d_enter(inp.a_sh, inp.kernel_size, inp.stride, inp.padding),
               k |-> 0, calls |-> 0, windows |-> <<>>]
    /\ rnd' \in MaxpoolRandomness(inp.a_sh.field, inp.kernel_size * inp.kernel_size)
    /\ pc' = "loop"
    /\ UNCHANGED <<op, inp, out, n_mul, n_zero>>

\* lines 718-725, one pass of the innermost loop
MaxPool2dWindow ==
    /\ pc = "loop"
    /\ op = "maxpool2d"
    /\ loc.k < loop_passes(loc.st).all
    /\ \E v \in {loop_vars(loc.st, loc.k)} :
         loc' = [loc EXCEPT !.st.res = Append(@, maxpool2d_window(loc.st, v, rnd.enter, rnd.steps)),
                            !.k = @ + 1,
                            !.calls = @ + 1,
                            !.windows = Append(@, v)]
    /\ n_mul' = n_mul + (inp.kernel_size * inp.kernel_size - 1)
                           * (relu_deriv_muls + 2 * select_share_muls)
    /\ n_zero' = n_zero + 2 + (inp.kernel_size * inp.kernel_size - 1)
                               * (relu_deriv_zero_shares + 2 * select_share_zero_shares)
    /\ UNCHANGED <<pc, op, inp, rnd, out>>

\* lines 727-728
MaxPool2dReturn ==
    /\ pc = "loop"
    /\ op = "maxpool2d"
    /\ loc.k >= loop_passes(loc.st).all
    /\ out' = maxpool2d_result(loc.st)
    /\ pc' = "done"
    /\ UNCHANGED <<op, inp, rnd, loc, n_mul, n_zero>>

NextPool2d == MaxPool2dEnter \/ MaxPool2dWindow \/ MaxPool2dReturn

SpecPool2d == InitPool2d /\ [][NextPool2d]_vars

\* the plaintext of the window of plane (b, c) of the padded input that starts
\* at row r0 and column c0 (all from 0), as a set of values
WindowValues(st, b, c, r0, c0) ==
    {modulo(st.a_sh.a[b + 1][c + 1][r0 + dr][c0 + dc] + st.a_sh.b[b + 1][c + 1][r0 + dr][c0 + dc],
            st.a_sh.field) : dr \in 1..st.kernel[1], dc \in 1..st.kernel[2]}

\* the zero-padded plaintext at row r and column k (from 1) of plane (b, c)
PaddedValue(i, b, c, r, k) ==
    IF /\ r > i.padding /\ r <= i.padding + Len(i.a_sh.a[1][1])
       /\ k > i.padding /\ k <= i.padding + Len(i.a_sh.a[1][1][1])
    THEN modulo(i.a_sh.a[b][c][r - i.padding][k - i.padding]
                + i.a_sh.b[b][c][r - i.padding][k - i.padding], i.a_sh.field)
    ELSE 0

\* C16 (the count): when maxpool2d returns, maxpool was called exactly
\* batch * channels * nb_rows_out * nb_cols_out times
C16_CallCount ==
    (op = "maxpool2d" /\ pc = "done") =>
        loc.calls = loc.st.batch_size * loc.st.nb_channels
                    * loc.st.nb_rows_out * loc.st.nb_cols_out

\* C16 (the windows): every window handed to maxpool lies inside the
\* zero-padded input, whose planes are the input's with zeros around
C16_WindowsInside ==
    (op = "maxpool2d" /\ pc \in {"loop", "done"}) =>
        /\ \A n \in 1..Len(loc.windows) :
             /\ loc.windows[n].batch \in 0..(loc.st.batch_size - 1)
             /\ loc.windows[n].channel \in 0..(loc.st.nb_channels - 1)
             /\ loc.windows[n].r_in >= 0
             /\ loc.windows[n].r_in + loc.st.kernel[1] <= Len(loc.st.a_sh.a[1][1])
             /\ loc.windows[n].c_in >= 0
             /\ loc.windows[n].c_in + loc.st.kernel[2] <= Len(loc.st.a_sh.a[1][1][1])
        /\ Len(loc.st.a_sh.a[1][1]) = Len(inp.a_sh.a[1][1]) + 2 * inp.padding
        /\ Len(loc.st.a_sh.a[1][1][1]) = Len(inp.a_sh.a[1][1][1]) + 2 * inp.padding
        /\ \A b \in 1..loc.st.batch_size, c \in 1..loc.st.nb_channels,
              r \in 1..Len(loc.st.a_sh.a[1][1]), k \in 1..Len(loc.st.a_sh.a[1][1][1]) :
             modulo(loc.st.a_sh.a[b][c][r][k] + loc.st.a_sh.b[b][c][r][k], inp.a_sh.field)
               = PaddedValue(inp, b, c, r, k)

\* C16: when maxpool2d returns, maxpool was called exactly batch * channels *
\* nb_rows_out * nb_cols_out times, every window lay inside the zero-padded
\* input, and the output at [b, c, i, j] is the maximum of the window of plane
\* (b, c) that starts at row i * stride and column j * stride
C16_OutputIsWindowMax ==
    (op = "maxpool2d" /\ pc = "done") =>
        /\ C16_CallCount
        /\ C16_WindowsInside
        /\ \A b \in 1..loc.st.batch_size, c \in 1..loc.st.nb_channels,
              i \in 1..loc.st.nb_rows_out, j \in 1..loc.st.nb_cols_out :
             \A w \in WindowValues(loc.st, b - 1, c - 1, (i - 1) * loc.st.stride[1],
                                   (j - 1) * loc.st.stride[2]) :
                 /\ w <= reconstruct(out[b][c][i][j])
                 /\ reconstruct(out[b][c][i][j])
                      \in WindowValues(loc.st, b - 1, c - 1, (i - 1) * loc.st.stride[1],
                                       (j - 1) * loc.st.stride[2])

(***************************************************************************)
(* The entry of the eight operators, in the order of the code: the dtype   *)
(* assertion, the first zero shares, the rest of the call.  An operand is  *)
(* described by what the assertions and the draws look at: its dtype, its  *)
(* field, whether it is a wrapper around the sharing, and its number of    *)
(* elements; the values it holds play no part.                             *)
(***************************************************************************)
Operators == {"select_share", "share_convert", "relu_deriv", "relu", "division",
              "maxpool", "maxpool_deriv", "maxpool2d"}

\* x.dtype as the assertions read it: a wrapper is a torch tensor, whose dtype
\* is a torch dtype and never the string "custom"
dtype_attr(x) == IF x.is_wrapper THEN "torch.int64" ELSE x.dtype

\* the first statement of each operator
operator_assert(op_, args) ==
    CASE op_ = "select_share" -> select_share_dtypes_ok(args[1], args[2], args[3]) \* 147-149
      [] op_ = "share_convert" -> args[1].dtype # "custom"                          \* 353-355
      [] op_ = "relu_deriv" -> args[1].dtype # "custom"                             \* 454-456
      [] op_ = "relu" -> args[1].dtype # "custom"                                   \* 493-495
      [] op_ = "division" -> args[1].dtype = args[2].dtype /\ args[2].dtype # "custom" \* 518-520
      [] op_ = "maxpool" -> dtype_attr(args[1]) # "custom"                          \* 578-580
      [] op_ = "maxpool_deriv" -> args[1].dtype # "custom"                          \* 632-634
      [] op_ = "maxpool2d" -> dtype_attr(args[1]) # "custom"                        \* 683-685

\* the zero shares an operator generates right after its assertion; maxpool2d
\* generates none itself, those are the ones of its first call of maxpool
operator_draws(op_) ==
    CASE op_ = "select_share" -> 1       \* line 155
      [] op_ = "share_convert" -> 1      \* line 385
      [] op_ = "relu_deriv" -> 1         \* line 463
      [] op_ = "relu" -> 1               \* line 502
      [] op_ = "division" -> 3           \* lines 536-538
      [] op_ = "maxpool" -> 2            \* lines 592-593
      [] op_ = "maxpool_deriv" -> 1      \* line 647
      [] op_ = "maxpool2d" -> 2          \* lines 592-593, called at line 722

\* the secure multiplications and the zero shares of the rest of a call on n
\* elements (division with one trial bit, maxpool2d with one window)
operator_rest(op_, n) ==
    LET step == [muls |-> relu_deriv_muls + 2 * select_share_muls,
                 zero_shares |-> relu_deriv_zero_shares + 2 * select_share_zero_shares]
    IN  CASE op_ = "select_share" -> [muls |-> select_share_muls, zero_shares |-> 0]
          [] op_ = "share_convert" -> [muls |-> 0, zero_shares |-> 0]
          [] op_ = "relu_deriv" -> [muls |-> relu_deriv_muls,
                                    zero_shares |-> relu_deriv_zero_shares - 1]
          [] op_ = "relu" -> [muls |-> relu_muls, zero_shares |-> relu_zero_shares - 1]
          [] op_ = "division" -> [muls |-> relu_deriv_muls + 2,
                                  zero_shares |-> relu_deriv_zero_shares]
          [] op_ \in {"maxpool", "maxpool2d"} ->
               [muls |-> (n - 1) * step.muls, zero_shares |-> (n - 1) * step.zero_shares]
          [] op_ = "maxpool_deriv" ->
               [muls |-> (n - 1) * step.muls, zero_shares |-> 2 + (n - 1) * step.zero_shares]

Operands(W) ==
    {[dtype |-> d, field |-> f, is_wrapper |-> w, n |-> n] :
        d \in {"long", "int", "custom"}, f \in {Field, Field \div 2}, w \in W, n \in 1..2}

\* maxpool unwraps a wrapper (lines 584-585); maxpool2d takes the child of
\* every window and wraps every result (lines 722-725), so its input is one
OperatorInputs(op_) ==
    CASE op_ = "select_share" ->
           {[args |-> <<a, x, y>>] : a \in {v \in Operands({FALSE}) : v.n = 1},
                                     x \in {v \in Operands({FALSE}) : v.n = 1},
                                     y \in {v \in Operands({FALSE}) : v.n = 1}}
      [] op_ = "division" ->
           {[args |-> <<x, y>>] : x \in {v \in Operands({FALSE}) : v.n = 1},
                                  y \in {v \in Operands({FALSE}) : v.n = 1}}
      [] op_ = "maxpool" -> {[args |-> <<x>>] : x \in Operands(BOOLEAN)}
      [] op_ = "maxpool2d" -> {[args |-> <<x>>] : x \in Operands({TRUE})}
      [] OTHER -> {[args |-> <<x>>] : x \in Operands({FALSE})}

InitDtype ==
    /\ pc = "start"
    /\ op \in Operators
    /\ inp \in OperatorInputs(op)
    /\ rnd = None
    /\ loc = None
    /\ out = None
    /\ n_mul = 0
    /\ n_zero = 0

\* the assertion that opens the operator
OperatorAssert ==
    /\ pc = "start"
    /\ op \in Operators
    /\ loc = None
    /\ IF operator_assert(op, inp.args)
       THEN pc' = "checked" /\ out' = out
       ELSE pc' = "error" /\ out' = [error |-> "dtype", at |-> op]
    /\ UNCHANGED <<op, inp, rnd, loc, n_mul, n_zero>>

\* the zero shares that follow the assertion; maxpool2d first hands the child
\* of a window to maxpool, whose assertion reads the dtype of the sharing
OperatorDraw ==
    /\ pc = "checked"
    /\ op \in Operators
    /\ IF op = "maxpool2d"
          /\ ~operator_assert("maxpool", <<[inp.args[1] EXCEPT !.is_wrapper = FALSE]>>)
       THEN /\ pc' = "error"
            /\ out' = [error |-> "dtype", at |-> "maxpool"]
            /\ n_zero' = n_zero
       ELSE /\ pc' = "drawn"
            /\ out' = out
            /\ n_zero' = n_zero + operator_draws(op)
    /\ UNCHANGED <<op, inp, rnd, loc, n_mul>>

\* the rest of the call.  A "custom" sharing that got past maxpool's assertion
\* meets the one of relu_deriv at the first comparison (line 605), if there is
\* one; what the share arithmetic does with operands of different fields is
\* not decided by this file, so both outcomes are possible
OperatorRest ==
    /\ pc = "drawn"
    /\ op \in Operators
    /\ \E n \in {operator_rest(op, inp.args[1].n)} :
         \/ /\ \A i \in 1..Len(inp.args) : inp.args[i].dtype # "custom"
            /\ pc' = "done"
            /\ out' = out
            /\ n_mul' = n_mul + n.muls
            /\ n_zero' = n_zero + n.zero_shares
         \/ /\ inp.args[1].dtype = "custom"
            /\ IF inp.args[1].n > 1
               THEN pc' = "error" /\ out' = [error |-> "dtype", at |-> "relu_deriv"]
               ELSE pc' = "done" /\ out' = out
            /\ UNCHANGED <<n_mul, n_zero>>
         \/ /\ \E i \in 1..Len(inp.args) : inp.args[i].field # inp.args[1].field
            /\ pc' = "error"
            /\ out' = [error |-> "field", at |-> "share arithmetic"]
            /\ UNCHANGED <<n_mul, n_zero>>
    /\ UNCHANGED <<op, inp, rnd, loc>>

NextDtype == OperatorAssert \/ OperatorDraw \/ OperatorRest

SpecDtype == InitDtype /\ [][NextDtype]_vars

\* C14: an operator with a "custom" input is at its entry or has failed at its
\* own first statement, with no zero share generated and no secure
\* multiplication issued
C14_CustomFailsFirst ==
    (op \in Operators /\ \E i \in 1..Len(inp.args) : inp.args[i].dtype = "custom") =>
        /\ pc \in {"start", "error"}
        /\ pc = "error" => out = [error |-> "dtype", at |-> op]
        /\ n_zero = 0
        /\ n_mul = 0

\* C15: select_share or division with operands of one standard dtype and
\* different fields is at its entry or has failed, with no zero share
\* generated and no secure multiplication issued
C15_FieldMismatchFailsFirst ==
    (/\ op \in {"select_share", "division"}
     /\ \A i \in 1..Len(inp.args) :
          inp.args[i].dtype = inp.args[1].dtype /\ inp.args[i].dtype # "custom"
     /\ \E i \in 1..Len(inp.args) : inp.args[i].field # inp.args[1].field) =>
        /\ pc \in {"start", "error"}
        /\ n_zero = 0
        /\ n_mul = 0

(***************************************************************************)
(* decompose run alone on every torch integer of the balanced range of a   *)
(* field, for power-of-two fields, the fields next to them and p.          *)
(***************************************************************************)
DecomposeFields == {CmpField, Field - 1, Field, p}

DecomposeInputs == {[tensor |-> v, field |-> f] : f \in DecomposeFields, v \in TorchInts(p)}

InitBits ==
    /\ pc = "start"
    /\ op = "decompose"
    /\ inp \in {i \in DecomposeInputs : i.tensor \in TorchInts(i.field)}
    /\ rnd = None
    /\ loc = None
    /\ out = None
    /\ n_mul = 0
    /\ n_zero = 0

\* lines 54-66
Decompose ==
    /\ pc = "start"
    /\ op = "decompose"
    /\ out' = decompose(inp.tensor, inp.field)
    /\ pc' = "done"
    /\ UNCHANGED <<op, inp, rnd, loc, n_mul, n_zero>>

NextBits == Decompose

SpecBits == InitBits /\ [][NextBits]_vars

\* C18: for every t of the balanced range of the field, negative values
\* included, decompose(t, field) holds get_n_bits(field) values, each 0 or 1,
\* the value at index i (from 0) being floor(t / 2^i) mod 2
C18_DecomposeGivesBits ==
    (op = "decompose" /\ pc = "done") =>
        /\ Len(out) = get_n_bits(inp.field)
        /\ \A i \in 1..Len(out) :
             /\ out[i] \in {0, 1}
             /\ out[i] = (inp.tensor \div 2^(i - 1)) % 2

\* C18 for the values t >= 0
C18_DecomposeGivesBitsNonNegative ==
    (op = "decompose" /\ pc = "done" /\ inp.tensor >= 0) =>
        /\ Len(out) = get_n_bits(inp.field)
        /\ \A i \in 1..Len(out) :
             /\ out[i] \in {0, 1}
             /\ out[i] = (inp.tensor \div 2^(i - 1)) % 2

(***************************************************************************)
(* division called without bit_len_max, in the two fields of the standard  *)
(* storage widths and in the fields between them.                          *)
(***************************************************************************)
DefaultFields == {2^n : n \in (NBits \div 2)..NBits}

DefaultInputs ==
    {[x_sh |-> share(x, 1, f, StdDtype), y_sh |-> share(y, 2, f, StdDtype)] :
        f \in DefaultFields, x \in 0..3, y \in 1..2}

InitDefault ==
    /\ pc = "start"
    /\ op = "division"
    /\ inp \in DefaultInputs
    /\ rnd = None
    /\ loc = None
    /\ out = None
    /\ n_mul = 0
    /\ n_zero = 0

SpecDefault == InitDefault /\ [][NextDiv]_vars

\* C20: a call of division without bit_len_max has iterated, when it returns,
\* over get_n_bits(L) \div 2 trial bit positions, L the field of x_sh
C20_DefaultIsHalfBitWidth ==
    (op = "division" /\ pc = "done" /\ "bit_len_max" \notin DOMAIN inp) =>
        Len(loc.ks) = get_n_bits(inp.x_sh.field) \div 2

\* C20 in the fields 2^(NBits \div 2) and 2^NBits of the two storage widths
C20_DefaultIsHalfBitWidthStandard ==
    (/\ op = "division" /\ pc = "done" /\ "bit_len_max" \notin DOMAIN inp
     /\ inp.x_sh.field \in {2^(NBits \div 2), 2^NBits}) =>
        Len(loc.ks) = get_n_bits(inp.x_sh.field) \div 2

====
